---- MODULE Spec2Model ----
(***************************************************************************)
(* A model of mariposa/dbengines.py: the migration engines of dbmigrate.    *)
(*                                                                          *)
(* Strings whose characters matter (filenames, directories) are sequences   *)
(* of one-character strings, ordered by code point as Python orders str.    *)
(* A statement text is the sequence of its lines ("\n".join of the lines).  *)
(* The database behind an engine is a committed state `db` and the view     *)
(* `tx` of the engine's connection (committed state plus its open           *)
(* transaction).                                                            *)
(***************************************************************************)
EXTENDS Integers, Sequences, FiniteSets, Bags, TLC

VARIABLES
    engine,      \* class of the engine: "sqlite", "mysql", "postgres", "oracle"
    live,        \* an instance has been constructed and holds a connection
    descriptor,  \* connection descriptor the instance was constructed from
    connectArgs, \* keys the constructor passed to the driver's connect()
    db,          \* committed database state
    tx,          \* state seen through the engine's connection
    aborted,     \* postgres: the open transaction is in the failed state
    directory,   \* directory argument of the last sql() call
    pending,     \* files_sha1s_to_run argument of the last sql() call
    units,       \* the (command, text) pairs the last sql() call yields
    pos,         \* index of the next unit the caller executes
    halted,      \* the caller stopped at unit pos, whose execute() raised
    performed,   \* list returned by the last performed_migrations()
    last,        \* the last operation: its argument, driver calls, outcome
    dupExec      \* history: sql() was asked for a filename the ledger held

vars == <<engine, live, descriptor, connectArgs, db, tx, aborted, directory,
          pending, units, pos, halted, performed, last, dupExec>>

(***************************************************************************)
(* Bounds of the model.                                                     *)
(***************************************************************************)
MaxPoolPending == 3 \* size of a pending set drawn for the sql() function
MaxRows == 3        \* ledger rows a database holds

(***************************************************************************)
(* Strings.                                                                 *)
(***************************************************************************)
Ord(c) ==
    CASE c = "." -> 46
      [] c = "/" -> 47
      [] c = "L" -> 76
      [] c = "Q" -> 81
      [] c = "S" -> 83
      [] c = "a" -> 97
      [] c = "b" -> 98
      [] c = "d" -> 100
      [] c = "l" -> 108
      [] c = "q" -> 113
      [] c = "s" -> 115
      [] c = "x" -> 120

\* Python's str.__lt__: first differing code point, a proper prefix is less.
RECURSIVE StrLess(_, _)
StrLess(s, t) ==
    IF t = <<>> THEN FALSE
    ELSE IF s = <<>> THEN TRUE
    ELSE IF Head(s) = Head(t) THEN StrLess(Tail(s), Tail(t))
    ELSE Ord(Head(s)) < Ord(Head(t))

\* tuple comparison of (filename, sha1) pairs, as sorted() compares them
PairLess(p, q) ==
    \/ StrLess(p[1], q[1])
    \/ p[1] = q[1] /\ StrLess(p[2], q[2])

\* str.rfind of a single character, 1-based; 0 when absent
RFind(s, c) ==
    LET hits == {i \in 1..Len(s) : s[i] = c}
    IN  IF hits = {} THEN 0 ELSE CHOOSE i \in hits : \A j \in hits : j <= i

\* mutant: the extension taken as the last four characters of the name
SplitExtSuffix(p) ==
    IF Len(p) >= 4 THEN SubSeq(p, Len(p) - 3, Len(p)) ELSE <<>>

\* os.path.splitext(p)[-1]: from the last dot of the last path component,
\* unless that component has only dots before it
SplitExt(p) ==
    LET sepIndex == RFind(p, "/")
        dotIndex == RFind(p, ".")
    IN  IF dotIndex > sepIndex
           /\ \E i \in (sepIndex + 1)..(dotIndex - 1) : p[i] # "."
        THEN SubSeq(p, dotIndex, Len(p))
        ELSE <<>>

\* os.path.join(a, b) of posixpath
PathJoin(a, b) ==
    IF b # <<>> /\ b[1] = "/" THEN b
    ELSE IF a = <<>> \/ a[Len(a)] = "/" THEN a \o b
    ELSE a \o <<"/">> \o b

DotSql == <<".", "s", "q", "l">>

None == <<"None">>

(***************************************************************************)
(* Lines of a statement text.  `term` is ";" when the line's text holds a   *)
(* semicolon.                                                               *)
(***************************************************************************)
Line(kind, a, b, n, date, term) ==
    [kind |-> kind, a |-> a, b |-> b, n |-> n, date |-> date, term |-> term]

\* '-- start filename: %s sha1: %s' % (filename, sha1)
HeaderLine(filename, sha1) == Line("header", filename, sha1, 0, "", "")

\* "INSERT INTO dbmigration (filename, sha1, executed_dt) VALUES ('%s', '%s', %s);"
InsertLine(filename, sha1, date) == Line("insert", filename, sha1, 0, date, ";")

\* "SELECT filename, sha1 FROM dbmigration ORDER BY filename"
SelectText == <<Line("select", <<>>, <<>>, 0, "", "")>>

\* 'SET search_path = %s' % schema
SetText(schema) == <<Line("set", schema, <<>>, 0, "", "")>>

\* the files of the directory: line n of the file at `path`, a terminated
\* SQL statement
FileLength(path) == IF \E i \in 1..Len(path) : path[i] = "a" THEN 2 ELSE 1

ReadLines(path) ==
    [n \in 1..FileLength(path) |-> Line("stmt", path, <<>>, n, "", ";")]

date_func(cls) ==
    CASE cls = "sqlite" -> "datetime()"
      [] cls = "mysql" -> "now()"
      [] cls = "postgres" -> "now()"
      [] cls = "oracle" -> "sysdate"

migration_table_sql(cls) ==
    CASE cls = "sqlite" -> <<Line("create", <<"dbmigration">>, <<"datetime">>, 0, "", ";")>>
      [] cls = "mysql" -> <<Line("create", <<"dbmigration">>, <<"datetime">>, 0, "", ";")>>
      [] cls = "postgres" -> <<Line("create", <<"dbmigration">>, <<"timestamp">>, 0, "", ";")>>
      [] cls = "oracle" -> <<Line("create", <<"DBMIGRATION">>, <<"timestamp">>, 0, "", "")>>

(***************************************************************************)
(* DatabaseMigrationEngine.sql                                              *)
(***************************************************************************)
\* mutant: the pending set iterated in descending order
RECURSIVE DescendingPairs(_)
DescendingPairs(S) ==
    IF S = {} THEN <<>>
    ELSE LET m == CHOOSE x \in S : \A y \in S \ {x} : PairLess(y, x)
         IN  <<m>> \o DescendingPairs(S \ {m})

\* sorted(S) for a set of (filename, sha1) pairs
RECURSIVE SortedPairs(_)
SortedPairs(S) ==
    IF S = {} THEN <<>>
    ELSE LET m == CHOOSE x \in S : \A y \in S \ {x} : PairLess(x, y)
         IN  <<m>> \o SortedPairs(S \ {m})

\* mutant: the ledger INSERT appended in the branch and again after it
SqlUnitInsertTwice(cls, dir, filename, sha1) ==
    LET isSql == SplitExt(filename) = DotSql
        content == IF isSql THEN ReadLines(PathJoin(dir, filename)) ELSE <<>>
    IN  [command |-> IF isSql THEN None ELSE PathJoin(dir, filename),
         text |-> <<HeaderLine(filename, sha1)>> \o content
                  \o <<InsertLine(filename, sha1, date_func(cls)),
                       InsertLine(filename, sha1, date_func(cls))>>]

\* the body of the loop of sql(): the (command, text) pair of one item
SqlUnit(cls, dir, filename, sha1) ==
    LET isSql == SplitExt(filename) = DotSql
        content == IF isSql THEN ReadLines(PathJoin(dir, filename)) ELSE <<>>
    IN  [command |-> IF isSql THEN None ELSE PathJoin(dir, filename),
         text |-> <<HeaderLine(filename, sha1)>> \o content
                  \o <<InsertLine(filename, sha1, date_func(cls))>>]

sql(cls, dir, files_sha1s_to_run) ==
    LET order == SortedPairs(files_sha1s_to_run)
    IN  [i \in 1..Len(order) |-> SqlUnit(cls, dir, order[i][1], order[i][2])]

(***************************************************************************)
(* The database a driver talks to.  A view holds whether the ledger table   *)
(* exists, the ledger's rows (a bag of (filename, sha1) pairs: the table    *)
(* has no key) and the migration statements that took effect.               *)
(***************************************************************************)
EmptyView == [table |-> FALSE, ledger |-> EmptyBag, effects |-> {}]

Row(line) == <<line.a, line.b>>

\* the server rejects the statement in this view
Rejects(v, line) ==
    \/ line.kind = "create" /\ v.table
    \/ line.kind \in {"insert", "select"} /\ ~v.table

\* the error class a driver raises for a rejected statement
RejectKind(cls, line) ==
    CASE cls = "sqlite" -> "OperationalError"
      [] cls = "mysql" ->
           IF line.kind = "create" THEN "OperationalError" ELSE "ProgrammingError"
      [] cls = "postgres" -> "ProgrammingError"
      [] cls = "oracle" -> "DatabaseError"

\* the error classes a driver raises when line k fails for a reason of its
\* own: a migration statement for its syntax or a violated constraint, any
\* other line for a lost connection
EnvKinds(cls, statement, k) ==
    IF k \in 1..Len(statement) /\ statement[k].kind = "stmt"
    THEN CASE cls = "sqlite" -> {"OperationalError", "IntegrityError"}
           [] cls = "mysql" -> {"ProgrammingError", "IntegrityError"}
           [] cls = "postgres" -> {"ProgrammingError", "IntegrityError"}
           [] cls = "oracle" -> {"DatabaseError", "IntegrityError"}
    ELSE IF cls = "oracle" THEN {"DatabaseError"} ELSE {"OperationalError"}

Apply(v, line) ==
    CASE line.kind = "create" -> [v EXCEPT !.table = TRUE]
      [] line.kind = "insert" ->
           [v EXCEPT !.ledger = @ (+) SetToBag({Row(line)})]
      [] line.kind = "stmt" ->
           [v EXCEPT !.effects = @ \cup {<<line.a, line.n>>}]
      [] OTHER -> v

\* The statements of `text` from line i on, run in order in view v until one
\* fails: line k fails for a reason of its own (k = 0: none does).
RECURSIVE RunFrom(_, _, _, _)
RunFrom(v, text, i, k) ==
    IF i > Len(text) THEN [view |-> v, fail |-> 0]
    ELSE IF i = k \/ Rejects(v, text[i]) THEN [view |-> v, fail |-> i]
    ELSE RunFrom(Apply(v, text[i]), text, i + 1, k)

\* sqlplus: a failed statement is reported and the script goes on
RECURSIVE RunScript(_, _, _, _, _)
RunScript(v, text, i, k, failed) ==
    IF i > Len(text) THEN [view |-> v, failed |-> failed]
    ELSE IF i = k \/ Rejects(v, text[i])
         THEN RunScript(v, text, i + 1, k, TRUE)
    ELSE RunScript(Apply(v, text[i]), text, i + 1, k, failed)

\* the class raised when line `fail` of `text` failed
KindOf(cls, v, text, fail, k, kind) ==
    IF fail = k THEN kind ELSE RejectKind(cls, text[fail])

(***************************************************************************)
(* execute() of each engine class.  st is [db, tx, aborted]; k and kind are *)
(* the failure the environment injects.  The result is the new db, tx and   *)
(* aborted, the driver calls made (events), the captured stdout (out) and   *)
(* what the call raised ("none" when it returned).                          *)
(***************************************************************************)
Outcome(d, t, ab, events, out, raised) ==
    [db |-> d, tx |-> t, aborted |-> ab, events |-> events, out |-> out,
     raised |-> raised]

\* sqlite.execute: executescript commits, then runs each statement in
\* autocommit mode
sqlite_execute(st, statement, k, kind) ==
    LET r == RunFrom(st.tx, statement, 1, k)
        e == IF r.fail = 0 THEN "none"
             ELSE KindOf("sqlite", r.view, statement, r.fail, k, kind)
    IN  Outcome(r.view, r.view, FALSE, <<"executescript">>, <<>>,
                IF e = "OperationalError" THEN "SQLException" ELSE e)

GenericCaught(kind) == kind \in {"ProgrammingError", "OperationalError"}

\* GenericEngine.execute (mysql): no commit; rollback on the two caught
\* classes.  A failed statement leaves the earlier ones in the open
\* transaction.
generic_execute(st, statement, k, kind) ==
    LET r == RunFrom(st.tx, statement, 1, k)
        e == IF r.fail = 0 THEN "none"
             ELSE KindOf("mysql", r.view, statement, r.fail, k, kind)
        \* MySQL commits the open transaction when it runs a CREATE TABLE
        ddl == \E i \in 1..Len(statement) : statement[i].kind = "create"
    IN  IF e = "none"
        THEN Outcome(IF ddl THEN r.view ELSE st.db, r.view, FALSE,
                     <<"cursor", "execute">>, <<>>, "none")
        ELSE IF GenericCaught(e)
        THEN Outcome(st.db, st.db, FALSE, <<"cursor", "execute", "rollback">>,
                     <<>>, "SQLException")
        ELSE Outcome(st.db, r.view, FALSE, <<"cursor", "execute">>, <<>>, e)

\* postgres.execute: commit on success, rollback on the two caught classes.
\* The server aborts a transaction in which a statement failed and refuses
\* (InternalError) every statement until the client rolls back.
postgres_execute(st, statement, k, kind) ==
    LET r == RunFrom(st.tx, statement, 1, k)
        e == IF st.aborted THEN "InternalError"
             ELSE IF r.fail = 0 THEN "none"
             ELSE KindOf("postgres", r.view, statement, r.fail, k, kind)
    IN  IF e = "none"
        THEN Outcome(r.view, r.view, FALSE, <<"cursor", "execute", "commit">>,
                     <<>>, "none")
        ELSE IF GenericCaught(e)
        THEN Outcome(st.db, st.db, FALSE, <<"cursor", "execute", "rollback">>,
                     <<>>, "SQLException")
        ELSE Outcome(st.db, st.db, TRUE, <<"cursor", "execute">>, <<>>, e)

\* mutant: the separator looked for in the first line only
HasSepFirstLine(statement) == statement # <<>> /\ statement[1].term = ";"

\* ';' in sql
HasSep(statement) == \E i \in 1..Len(statement) : statement[i].term = ";"

\* every class the cx_Oracle cursor raises here derives from DatabaseError
OracleCaught(kind) == kind \in {"DatabaseError", "IntegrityError"}

\* oracle.execute: a text without ';' goes to the cursor, any other to a
\* sqlplus subprocess (k = -1: sqlplus cannot log in).  sqlplus commits when
\* it exits.
oracle_execute(st, statement, k, kind) ==
    IF ~HasSep(statement)
    THEN LET r == RunFrom(st.tx, statement, 1, k)
             e == IF r.fail = 0 THEN "none"
                  ELSE KindOf("oracle", r.view, statement, r.fail, k, kind)
         IN  IF e = "none"
             THEN Outcome(r.view, r.view, FALSE,
                          <<"cursor", "execute", "commit">>, <<>>, "none")
             ELSE IF OracleCaught(e)
             THEN Outcome(st.db, st.db, FALSE,
                          <<"cursor", "execute", "rollback">>, <<>>,
                          "SQLException")
             ELSE Outcome(st.db, r.view, FALSE, <<"cursor", "execute">>, <<>>, e)
    ELSE LET r == IF k = -1 THEN [view |-> st.db, failed |-> TRUE]
                  ELSE RunScript(st.db, statement, 1, k, FALSE)
             out == IF r.failed THEN <<"ERROR">> ELSE <<>>
         IN  Outcome(r.view, r.view, FALSE,
                     <<"cursor", "Popen", "write", "communicate">>, out,
                     IF \E i \in 1..Len(out) : out[i] = "ERROR"
                     THEN "SQLException" ELSE "none")

execute(cls, st, statement, k, kind) ==
    CASE cls = "sqlite" -> sqlite_execute(st, statement, k, kind)
      [] cls = "mysql" -> generic_execute(st, statement, k, kind)
      [] cls = "postgres" -> postgres_execute(st, statement, k, kind)
      [] cls = "oracle" -> oracle_execute(st, statement, k, kind)

\* sqlite.results: connection.execute(statement).fetchall()
sqlite_results(st, statement, k, kind) ==
    LET r == RunFrom(st.tx, statement, 1, k)
        e == IF r.fail = 0 THEN "none"
             ELSE KindOf("sqlite", r.view, statement, r.fail, k, kind)
    IN  Outcome(st.db, st.tx, FALSE, <<"execute", "fetchall">>, <<>>,
                IF e = "OperationalError" THEN "SQLException" ELSE e)

\* GenericEngine.results: self.execute(statement).fetchall()
results(cls, st, statement, k, kind) ==
    IF cls = "sqlite" THEN sqlite_results(st, statement, k, kind)
    ELSE LET o == execute(cls, st, statement, k, kind)
         IN  IF o.raised = "none"
             THEN [o EXCEPT !.events = @ \o <<"fetchall">>]
             ELSE o

\* the rows of a SELECT ... ORDER BY filename: every listing of the bag in
\* ascending filename order (rows of one filename in any order)
RECURSIVE Listings(_)
Listings(B) ==
    IF BagToSet(B) = {} THEN {<<>>}
    ELSE LET rows == BagToSet(B)
             least == {r \in rows : \A q \in rows : ~StrLess(q[1], r[1])}
         IN  UNION {{<<r>> \o s : s \in Listings(B (-) SetToBag({r}))} :
                    r \in least}

(***************************************************************************)
(* The environment: the engine classes, the connection descriptors, the     *)
(* migration files of the directory.                                        *)
(***************************************************************************)
Classes == {"sqlite", "mysql", "postgres", "oracle"}

\* sqlite and oracle take a plain connection string, mysql and postgres the
\* JSON text of the driver's connect() arguments; postgres also a schema
Descriptors(cls) ==
    IF cls = "postgres"
    THEN {[database |-> <<"d">>],
          [database |-> <<"d">>, schema |-> <<>>],
          [database |-> <<"d">>, schema |-> <<"a">>]}
    ELSE {[database |-> <<"d">>]}

ASql == <<"a", ".", "s", "q", "l">>
BExe == <<"b">>
Dir == <<"d">>

\* the (filename, sha1) pairs a caller may pass: a.sql, a.sql after an
\* edit, and the program b
Candidates == {<<ASql, <<"a">>>>, <<ASql, <<"b">>>>, <<BExe, <<"a">>>>}

\* the failures the environment can inject into one run of `statement`
Faults(cls, statement) ==
    (0..Len(statement))
        \cup (IF cls = "oracle" /\ HasSep(statement) THEN {-1} ELSE {})

State == [db |-> db, tx |-> tx, aborted |-> aborted]

Op(op, arg, o) ==
    [op |-> op, arg |-> arg, events |-> o.events, out |-> o.out,
     raised |-> o.raised]

NoCall == Outcome(db, tx, aborted, <<>>, <<>>, "none")

RowNames(v) == {r[1] : r \in BagToSet(v.ledger)}

(***************************************************************************)
(* Construction.                                                            *)
(***************************************************************************)
\* mutant: the schema key read but left in the dictionary
ConnectKeysAll(cls, desc) == DOMAIN desc

\* the keys the constructor hands to the driver's connect()
ConnectKeys(cls, desc) ==
    IF cls = "postgres" THEN DOMAIN desc \ {"schema"} ELSE DOMAIN desc

\* connection_dict.pop('schema', None), tested by `if schema:`
Schema(cls, desc) ==
    IF cls = "postgres" /\ "schema" \in DOMAIN desc THEN desc.schema ELSE <<>>

\* __init__ of the engine's class on a new connection to the database; the
\* transaction an earlier connection left open is lost
Construct(desc) ==
    LET fresh == [db |-> db, tx |-> db, aborted |-> FALSE]
        schema == Schema(engine, desc)
    IN  \E k \in 0..1 : \E kind \in EnvKinds(engine, SetText(schema), k) :
          LET o == IF schema # <<>>
                   THEN execute(engine, fresh, SetText(schema), k, kind)
                   ELSE Outcome(db, db, FALSE, <<>>, <<>>, "none")
          IN  /\ descriptor' = desc
              /\ connectArgs' = ConnectKeys(engine, desc)
              /\ live' = (o.raised = "none")
              /\ db' = o.db
              /\ tx' = o.tx
              /\ aborted' = o.aborted
              /\ last' = Op("construct",
                            IF schema # <<>> THEN SetText(schema) ELSE <<>>,
                            [o EXCEPT !.events = <<"connect">> \o @])
              /\ performed' = <<>>
              /\ UNCHANGED <<engine, directory, pending, units, pos, halted,
                             dupExec>>

(***************************************************************************)
(* The operations of a live engine.                                         *)
(***************************************************************************)
create_migration_table ==
    /\ live
    /\ \E k \in Faults(engine, migration_table_sql(engine)) :
       \E kind \in EnvKinds(engine, migration_table_sql(engine), k) :
          LET statement == migration_table_sql(engine)
              o == execute(engine, State, statement, k, kind)
          IN  /\ db' = o.db
              /\ tx' = o.tx
              /\ aborted' = o.aborted
              /\ last' = Op("create_migration_table", statement, o)
    /\ performed' = <<>>
    /\ UNCHANGED <<engine, live, descriptor, connectArgs, directory, pending,
                   units, pos, halted, dupExec>>

performed_migrations ==
    /\ live
    /\ \E k \in Faults(engine, SelectText) :
       \E kind \in EnvKinds(engine, SelectText, k) :
          LET o == results(engine, State, SelectText, k, kind)
          IN  /\ db' = o.db
              /\ tx' = o.tx
              /\ aborted' = o.aborted
              /\ last' = Op("performed_migrations", SelectText, o)
              /\ IF o.raised = "none"
                 THEN performed' \in Listings(o.tx.ledger)
                 ELSE performed' = <<>>
    /\ UNCHANGED <<engine, live, descriptor, connectArgs, directory, pending,
                   units, pos, halted, dupExec>>

\* sql(directory, files_sha1s_to_run), iterated to its end by the caller
CallSql(dir, P) ==
    /\ live
    /\ directory' = dir
    /\ pending' = P
    /\ units' = sql(engine, dir, P)
    /\ pos' = 1
    /\ halted' = FALSE
    /\ last' = Op("sql", <<>>, NoCall)
    /\ performed' = <<>>
    /\ dupExec' = (\/ dupExec
                   \/ \E p \in P : p[1] \in RowNames(tx) \cup RowNames(db)
                   \/ \E p, q \in P : p # q /\ p[1] = q[1])
    /\ UNCHANGED <<engine, live, descriptor, connectArgs, db, tx, aborted>>

\* the caller passes the next unit's text to execute(), and stops at the
\* first unit that fails
CallExecute ==
    /\ live
    /\ ~halted
    /\ pos <= Len(units)
    /\ BagCardinality(tx.ledger) < MaxRows
    /\ \E k \in Faults(engine, units[pos].text) :
       \E kind \in EnvKinds(engine, units[pos].text, k) :
          LET statement == units[pos].text
              o == execute(engine, State, statement, k, kind)
          IN  /\ db' = o.db
              /\ tx' = o.tx
              /\ aborted' = o.aborted
              /\ last' = Op("execute", statement, o)
              /\ pos' = IF o.raised = "none" THEN pos + 1 ELSE pos
              /\ halted' = (o.raised # "none")
    /\ performed' = <<>>
    /\ UNCHANGED <<engine, live, descriptor, connectArgs, directory, pending,
                   units, dupExec>>

Init ==
    /\ engine \in Classes
    /\ live = FALSE
    /\ descriptor = [database |-> <<"d">>]
    /\ connectArgs = {}
    /\ db = EmptyView
    /\ tx = EmptyView
    /\ aborted = FALSE
    /\ directory = Dir
    /\ pending = {}
    /\ units = <<>>
    /\ pos = 1
    /\ halted = FALSE
    /\ performed = <<>>
    /\ last = [op |-> "none", arg |-> <<>>, events |-> <<>>, out |-> <<>>,
               raised |-> "none"]
    /\ dupExec = FALSE

Next ==
    \/ \E desc \in Descriptors(engine) : Construct(desc)
    \/ create_migration_table
    \/ performed_migrations
    \/ \E P \in SUBSET Candidates : CallSql(Dir, P)
    \/ CallExecute

Spec == Init /\ [][Next]_vars

(***************************************************************************)
(* sql() as a function of its inputs: the engine class, the directory and   *)
(* the pending set are drawn by InitSql, and the one step calls sql().      *)
(***************************************************************************)
PoolNames ==
    {ASql, BExe, DotSql, <<"a", ".", "S", "Q", "L">>,
     <<"/", "a", ".", "s", "q", "l">>, <<"b", ".", "s", "q", "l", ".", "x">>}

PoolDirs == {<<>>, <<"d">>, <<"d", "/">>}

Pool == PoolNames \X {<<"a">>, <<"b">>}

InitSql ==
    /\ engine \in Classes
    /\ live = TRUE
    /\ descriptor = [database |-> <<"d">>]
    /\ connectArgs = {"database"}
    /\ db = EmptyView
    /\ tx = EmptyView
    /\ aborted = FALSE
    /\ directory \in PoolDirs
    /\ pending \in {P \in SUBSET Pool : Cardinality(P) <= MaxPoolPending}
    /\ units = <<>>
    /\ pos = 1
    /\ halted = FALSE
    /\ performed = <<>>
    /\ last = [op |-> "none", arg |-> <<>>, events |-> <<>>, out |-> <<>>,
               raised |-> "none"]
    /\ dupExec = FALSE

NextSql == last.op = "none" /\ CallSql(directory, pending)

SpecSql == InitSql /\ [][NextSql]_vars

(***************************************************************************)
(* Claims.                                                                  *)
(***************************************************************************)
UnitName(u) == u.text[1].a
UnitHash(u) == u.text[1].b
UnitPair(u) == <<UnitName(u), UnitHash(u)>>
Yielded == last.op = "sql"
DistinctNames(P) == \A p, q \in P : p[1] = q[1] => p = q

\* C1 as claimed: sql() yields |P| units, one per pending item, with
\* strictly ascending filenames.
C1_Original ==
    Yielded =>
        /\ Len(units) = Cardinality(pending)
        /\ \A p \in pending : \E i \in 1..Len(units) : UnitPair(units[i]) = p
        /\ \A i, j \in 1..Len(units) :
              i < j => StrLess(UnitName(units[i]), UnitName(units[j]))

\* C1 amended: sql() yields |P| units, one per pending item, in strictly
\* ascending order of the (filename, hash) pair; the filenames are strictly
\* ascending when no two pending items share a filename, and two items that
\* share one are both yielded.
C1_Amended ==
    Yielded =>
        /\ Len(units) = Cardinality(pending)
        /\ \A p \in pending : \E i \in 1..Len(units) : UnitPair(units[i]) = p
        /\ \A i, j \in 1..Len(units) :
              i < j => PairLess(UnitPair(units[i]), UnitPair(units[j]))
        /\ DistinctNames(pending) =>
              \A i, j \in 1..Len(units) :
                 i < j => StrLess(UnitName(units[i]), UnitName(units[j]))

C1_Witness ==
    /\ Yielded
    /\ Len(units) = 3
    /\ UnitName(units[1]) = UnitName(units[2])
    /\ UnitName(units[2]) # UnitName(units[3])

\* the filename ends in ".sql" and its last path component has a character
\* other than "." before that suffix
HasSqlExtension(f) ==
    /\ Len(f) > 4
    /\ \A i \in 1..4 : f[Len(f) - 4 + i] = DotSql[i]
    /\ \E i \in 1..(Len(f) - 4) :
          /\ f[i] \notin {".", "/"}
          /\ \A j \in i..(Len(f) - 4) : f[j] # "/"

InsertsOf(text) == {i \in 1..Len(text) : text[i].kind = "insert"}

\* C9: the unit of a pending item has no command and the text header, file
\* lines, one ledger INSERT iff the filename has the extension ".sql";
\* otherwise its command is the joined path and its text only the header
\* and the INSERT.
C9_UnitShape ==
    Yielded =>
        \A i \in 1..Len(units) :
            LET u == units[i]
                n == Len(u.text)
                path == PathJoin(directory, UnitName(u))
            IN  /\ UnitPair(u) \in pending
                /\ u.text[1].kind = "header"
                /\ InsertsOf(u.text) = {n}
                /\ u.text[n] = InsertLine(UnitName(u), UnitHash(u), date_func(engine))
                /\ IF HasSqlExtension(UnitName(u))
                   THEN /\ u.command = None
                        /\ n = FileLength(path) + 2
                        /\ \A m \in 1..FileLength(path) :
                              /\ u.text[m + 1].kind = "stmt"
                              /\ u.text[m + 1].a = path
                              /\ u.text[m + 1].n = m
                   ELSE /\ u.command = path
                        /\ n = 2

C9_Witness ==
    /\ Yielded
    /\ \E i, j \in 1..Len(units) :
          /\ units[i].command = None
          /\ Len(units[i].text) = 4
          /\ units[j].command # None
          /\ UnitName(units[j]) = DotSql

Rows(v) == BagToSet(v.ledger)

\* the rows of the units of the current run whose execute() returned
Acked == {Row(units[i].text[Len(units[i].text)]) : i \in 1..(pos - 1)}

Returned == last.raised = "none"
Has(seq, x) == \E i \in 1..Len(seq) : seq[i] = x

\* an execute() call of the engine was made by the last operation
Executed ==
    \/ last.op \in {"execute", "create_migration_table", "performed_migrations"}
    \/ last.op = "construct" /\ last.arg # <<>>

\* C2: once execute() of a unit has returned, the committed ledger holds the
\* unit's (filename, hash) row, and a performed_migrations() that returns
\* lists it, in ascending filename order.
C2_AckedRowDurable ==
    \A r \in Acked :
        /\ r \in Rows(db)
        /\ (last.op = "performed_migrations" /\ Returned) =>
              /\ Has(performed, r)
              /\ \A i, j \in 1..Len(performed) :
                    i < j => ~StrLess(performed[j][1], performed[i][1])

\* the external diff of the candidates against the ledger, by filename
Diff(candidates, ledger) ==
    {c \in candidates : \A i \in 1..Len(ledger) : ledger[i][1] # c[1]}

\* C4: after a run that applied every candidate, performed_migrations()
\* followed by the diff and sql() yields no unit.
C4_RerunYieldsNothing ==
    (/\ pending # {}
     /\ DistinctNames(pending)
     /\ pos > Len(units)
     /\ last.op = "performed_migrations"
     /\ Returned)
        => sql(engine, directory, Diff(pending, performed)) = <<>>

\* C5: an execute() that raises leaves the committed database as it was
\* before the call: nothing of the failed unit is committed, and what the
\* earlier units committed stays.
C5_FailedUnitLeavesNothing ==
    [][(last'.op = "execute" /\ last'.raised # "none") => db' = db]_vars

\* C6: on postgres an execute() that returns has committed; on mysql and
\* postgres an execute() that raises has rolled back first.
C6_CommitOrRollback ==
    (Executed /\ engine \in {"mysql", "postgres"}) =>
        /\ (engine = "postgres" /\ Returned) => Has(last.events, "commit")
        /\ ~Returned => Has(last.events, "rollback")

\* C8: whatever fails in the driver reaches the caller as SQLException.
C8_OnlySQLException == last.raised \in {"none", "SQLException"}

\* C7: oracle's execute() runs a text without ';' through the cursor only
\* (commit when it returns, rollback and SQLException when it fails) and a
\* text with ';' through sqlplus only, raising SQLException exactly when the
\* captured stdout holds "ERROR".
C7_OracleDispatch ==
    (engine = "oracle" /\ Executed) =>
        IF \A i \in 1..Len(last.arg) : last.arg[i].term # ";"
        THEN /\ ~Has(last.events, "Popen")
             /\ Has(last.events, "execute")
             /\ \/ Returned /\ Has(last.events, "commit")
                          /\ ~Has(last.events, "rollback")
                \/ last.raised = "SQLException" /\ Has(last.events, "rollback")
                          /\ ~Has(last.events, "commit")
        ELSE /\ Has(last.events, "Popen")
             /\ ~Has(last.events, "execute")
             /\ ~Has(last.events, "commit") /\ ~Has(last.events, "rollback")
             /\ last.raised \in {"none", "SQLException"}
             /\ (last.raised = "SQLException") <=> Has(last.out, "ERROR")

C7_Witness ==
    /\ engine = "oracle"
    /\ last.op = "execute"
    /\ last.raised = "SQLException"
    /\ Has(last.events, "Popen")
    /\ db.table

\* C10: postgres's constructor keeps the schema key from the driver's
\* connect() and, when the schema is set, executes SET search_path for it
\* right after connecting; without a schema it executes nothing, and no
\* later operation issues a SET.
C10_SchemaFirst ==
    engine = "postgres" =>
        /\ last.op = "construct" =>
              /\ connectArgs = DOMAIN descriptor \ {"schema"}
              /\ IF "schema" \in DOMAIN descriptor /\ descriptor.schema # <<>>
                 THEN /\ last.arg = SetText(descriptor.schema)
                      /\ last.events[1] = "connect"
                      /\ last.events[3] = "execute"
                 ELSE last.events = <<"connect">>
        /\ last.op # "construct" =>
              \A i \in 1..Len(last.arg) : last.arg[i].kind # "set"

C10_Witness ==
    /\ engine = "postgres"
    /\ live
    /\ last.op = "construct"
    /\ "schema" \in DOMAIN descriptor
    /\ descriptor.schema = <<"a">>
    /\ Has(last.events, "commit")

NameCount(v, f) ==
    LET rows == {r \in Rows(v) : r[1] = f}
    IN  BagCardinality([r \in rows |-> CopiesIn(r, v.ledger)])

OneRowPerName(v) == \A r \in Rows(v) : NameCount(v, r[1]) = 1

\* C3 as claimed: whatever the calls, the ledger holds at most one row per
\* filename.
C3_Original == OneRowPerName(db) /\ OneRowPerName(tx)

\* C3 amended: the ledger holds at most one row per filename as long as
\* sql() is never given two items of one filename nor a filename the ledger
\* already holds; and no call removes or changes a committed row.
C3_Amended ==
    [][/\ ~dupExec' => (OneRowPerName(db') /\ OneRowPerName(tx'))
       /\ db.ledger \sqsubseteq db'.ledger]_vars

C3_Witness ==
    /\ ~dupExec
    /\ BagCardinality(db.ledger) = 2
    /\ last.op = "execute"

====
